---- MODULE Spec2Model ----
(***************************************************************************)
(* A model of the DB query builder of src/readme.md (class DB, lines       *)
(* 436-791): the clause accumulator, the statement compiler, the executor  *)
(* and DB.transaction.                                                     *)
(*                                                                         *)
(* Text is a sequence of tokens: a template literal concatenates the       *)
(* tokens of its parts, Array.join puts the separator token between the    *)
(* parts.  White space between tokens is not modelled.  The placeholder    *)
(* "?" is a token of its own, so the placeholders of a statement can be    *)
(* counted.                                                                *)
(***************************************************************************)
EXTENDS Integers, Sequences, FiniteSets, TLC

\* ------------------------------------------------------------------ bounds

\* Join fragments plus predicate fragments a builder of Spec accumulates.
MaxClauses == 3
\* The same, for the builder of SpecTx.
MaxTxClauses == 1
\* Statements executed on the transaction connection in one transaction.
MaxStmts == 2
\* What the two builders of SpecTwo accumulate together.
MaxTwoClauses == 3
\* What the builder of SpecDebug accumulates.
MaxDebugClauses == 2

\* ------------------------------------------------------------------ inputs

Builders == {"b1"}
Tables == {"users"}
Columns == {<<"id">>}
\* Operator texts as the caller writes them; the last one carries a
\* placeholder of its own ("BETWEEN ? AND" followed by the fragment's "?").
Operators == {<<"=">>, <<"BETWEEN", "?", "AND">>}
Values == {"v1", "v2"}
Undefined == "undefined"
ColumnLists == {<<<<"id">>, <<"name">>>>}
JoinTables == {<<"profiles">>}
OrderDirs == {"ASC", "DESC"}
Counts == {2}
\* An offset argument: <<n>>, or NoOffset when the argument is left out (null).
Offsets == {<<0>>}
NoOffset == <<>>
NoTrx == "null"
Conn == "conn"
Pool == "pool"

\* ------------------------------------------------------------------ text

\* The decimal text of a number (template literal interpolation).
NumStr(n) ==
  CASE n = 0 -> "0" [] n = 1 -> "1" [] n = 2 -> "2" [] n = 3 -> "3"
    [] n = 4 -> "4" [] n = 5 -> "5" [] n = 6 -> "6"
    [] n = -1 -> "-1" [] n = -2 -> "-2" [] n = -3 -> "-3"
    [] OTHER -> "n"

RECURSIVE Flatten(_, _)
\* Array.prototype.join: the parts of a list with the separator between them.
Flatten(parts, sep) ==
  IF parts = <<>> THEN <<>>
  ELSE IF Len(parts) = 1 THEN Head(parts)
  ELSE Head(parts) \o sep \o Flatten(Tail(parts), sep)

RECURSIVE Placeholders(_)
\* The number of "?" tokens of a text.
Placeholders(text) ==
  IF text = <<>> THEN 0
  ELSE (IF Head(text) = "?" THEN 1 ELSE 0) + Placeholders(Tail(text))

\* ------------------------------------------------------------------ state

VARIABLES
  db,         \* db[b]: the fields of builder instance b
  origin,     \* origin[b]: the factory that made b ("DB.table", "trx.table")
  whereArgs,  \* whereArgs[b]: the (column, operator, value) of every where
              \* call on b since its predicate list was last emptied
  last,       \* the operation that has just settled and what it was called
              \* on, until its caller goes on (op "none" after that)
  prev,       \* whether the operation before it was a get(), and how it ended
  calls,      \* the execute calls the operation of last issued
  outcome,    \* what the operation of last returned or threw
  txpc,       \* where DB.transaction stands
  connLog,    \* what was done to the checked-out connection, in order
  cbResult,   \* what the unit of work returned or threw
  txExit,     \* the path on which DB.transaction ended ("none" before)
  txOutcome,  \* what DB.transaction returned or threw
  debug       \* DB.debug

vars == <<db, origin, whereArgs, last, prev, calls, outcome,
          txpc, connLog, cbResult, txExit, txOutcome, debug>>
txVars == <<txpc, cbResult, txExit, txOutcome>>

\* ------------------------------------------------------ constructor, reset

\* reset(): every accumulated field back to its empty form.
reset(self) ==
  [self EXCEPT !.selectCols = <<"*">>, !.joins = <<>>, !.wheres = <<>>,
               !.params = <<>>, !.order = <<>>, !.limitVal = <<>>]

\* new DB(table): the table, no transaction connection, then reset().
NewDB(tbl) ==
  reset([table |-> tbl, trx |-> NoTrx, selectCols |-> <<>>, joins |-> <<>>,
         wheres |-> <<>>, params |-> <<>>, order |-> <<>>, limitVal |-> <<>>])

\* DB.table(name)
table(name) == NewDB(name)

\* trx.table(name) of DB.transaction: a new builder bound to the connection.
trxTable(name, conn) == [NewDB(name) EXCEPT !.trx = conn]

\* The accumulated fields of a builder, without its table and connection.
Clauses(self) ==
  [selectCols |-> self.selectCols, joins |-> self.joins, wheres |-> self.wheres,
   params |-> self.params, order |-> self.order, limitVal |-> self.limitVal]

EmptyClauses ==
  [selectCols |-> <<"*">>, joins |-> <<>>, wheres |-> <<>>,
   params |-> <<>>, order |-> <<>>, limitVal |-> <<>>]

\* ------------------------------------------------------------ clause calls

\* select(columns): an array is joined with ", ", a string is kept.
select(self, columns, isArray) ==
  [self EXCEPT !.selectCols =
     IF isArray THEN Flatten(columns, <<",">>) ELSE columns]

\* join(table, first, operator, second, type)
join(self, tbl, first, operator, second, type) ==
  [self EXCEPT !.joins =
     Append(@, <<type, "JOIN">> \o tbl \o <<"ON">> \o first \o operator \o second)]

leftJoin(self, tbl, first, operator, second) ==
  join(self, tbl, first, operator, second, "LEFT")

rightJoin(self, tbl, first, operator, second) ==
  join(self, tbl, first, operator, second, "RIGHT")

\* where() that forgets this.params.push(value).
WhereNoParam(self, column, operator, value) ==
  [self EXCEPT !.wheres = Append(@, column \o operator \o <<"?">>)]

\* where(column, operator, value): one fragment and its parameter.
where(self, column, operator, value) ==
  [self EXCEPT !.wheres = Append(@, column \o operator \o <<"?">>),
               !.params = Append(@, value)]

RECURSIVE whereEqual(_, _)
\* whereEqual(data): where(k, "=", v) for every entry, in insertion order.
whereEqual(self, data) ==
  IF data = <<>> THEN self
  ELSE whereEqual(where(self, <<Head(data)[1]>>, <<"=">>, Head(data)[2]), Tail(data))

\* orderBy() that adds to the order clause instead of replacing it.
OrderByStacks(self, column, dir) ==
  [self EXCEPT !.order = @ \o <<"ORDER BY">> \o column \o <<dir>>]

\* orderBy() that also drops the limit clause.
OrderByDropsLimit(self, column, dir) ==
  [self EXCEPT !.order = <<"ORDER BY">> \o column \o <<dir>>, !.limitVal = <<>>]

\* orderBy(column, dir)
orderBy(self, column, dir) ==
  [self EXCEPT !.order = <<"ORDER BY">> \o column \o <<dir>>]

\* limit(count, offset)
limit(self, cnt, offset) ==
  [self EXCEPT !.limitVal =
     IF offset # NoOffset
       THEN <<"LIMIT", NumStr(offset[1]), ",", NumStr(cnt)>>
       ELSE <<"LIMIT", NumStr(cnt)>>]

\* ------------------------------------------------------- statement compiler

\* The WHERE clause of a SELECT or COUNT: the fragments joined by AND, or
\* nothing when there is none.
whereSql(self) ==
  IF Len(self.wheres) # 0
    THEN <<"WHERE">> \o Flatten(self.wheres, <<"AND">>)
    ELSE <<>>

\* buildSelect(): SELECT columns FROM table joins [WHERE ...] order limit.
buildSelect(self) ==
  <<"SELECT">> \o self.selectCols \o <<"FROM", self.table>>
    \o Flatten(self.joins, <<>>) \o whereSql(self) \o self.order \o self.limitVal

\* The COUNT statement of count(column) and of paginate.
countSql(self, column) ==
  <<"SELECT", "COUNT(">> \o column \o <<")", "as", "total", "FROM", self.table>>
    \o Flatten(self.joins, <<>>) \o whereSql(self)

\* Object.keys / Object.values of a record given as <<key, value>> entries.
Keys(data) == [i \in 1..Len(data) |-> data[i][1]]
Vals(data) == [i \in 1..Len(data) |-> data[i][2]]
HasKey(data, k) == \E i \in 1..Len(data) : data[i][1] = k
\* data[k]: undefined when the key is absent.
Lookup(data, k) ==
  IF HasKey(data, k)
    THEN data[CHOOSE i \in 1..Len(data) : data[i][1] = k][2]
    ELSE Undefined

insertSql(self, keys, nrows) ==
  LET group == <<"(">> \o Flatten([i \in 1..Len(keys) |-> <<"?">>], <<",">>) \o <<")">>
  IN  <<"INSERT INTO", self.table, "(">>
        \o Flatten([i \in 1..Len(keys) |-> <<keys[i]>>], <<",">>)
        \o <<")", "VALUES">> \o Flatten([r \in 1..nrows |-> group], <<",">>)

updateSql(self, data) ==
  <<"UPDATE", self.table, "SET">>
    \o Flatten([i \in 1..Len(data) |-> <<data[i][1], "=", "?">>], <<",">>)
    \o <<"WHERE">> \o Flatten(self.wheres, <<"AND">>)

deleteSql(self) ==
  <<"DELETE FROM", self.table, "WHERE">> \o Flatten(self.wheres, <<"AND">>)

\* ---------------------------------------------------------------- executor

\* An Error with its message, and what an async method settles to.
Err(msg) == [t |-> "err", message |-> msg]
Return(v) == [kind |-> "return", val |-> v]
Throw(e) == [kind |-> "throw", val |-> e]
Rows(r) == [t |-> "rows", rows |-> r]
Num(n) == [t |-> "num", n |-> n]
Null == [t |-> "null"]
Undef == [t |-> "undefined"]

\* What the driver answers to one execute call.
DriverErrors == {"ER_FAIL"}
Failure(m) == [ok |-> FALSE, rows |-> <<>>, total |-> <<>>, insertId |-> 0,
               affectedRows |-> 0, err |-> Err(<<m>>)]
Answer(rows, total, id, n) ==
  [ok |-> TRUE, rows |-> rows, total |-> total, insertId |-> id,
   affectedRows |-> n, err |-> Err(<<>>)]
Failures == {Failure(m) : m \in DriverErrors}
RowSets == {<<>>, <<"r1", "r2">>}
SelectAnswers == {Answer(r, <<>>, 0, 0) : r \in RowSets} \cup Failures
\* The rows of a COUNT: none, or one row with its total.
CountAnswers == {Answer(<<>>, t, 0, 0) : t \in {<<>>, <<0>>, <<3>>}} \cup Failures
InsertAnswers == {Answer(<<>>, <<>>, 7, 1)} \cup Failures
WriteAnswers == {Answer(<<>>, <<>>, 0, n) : n \in {0, 1}} \cup Failures

\* _execute() that ignores this._trx.
ExecuteOnPool(self, sql, params) ==
  [target |-> Pool, sql |-> sql, params |-> params, logged |-> debug]

\* _execute() that leaves the parameters out when DB.debug is set.
ExecuteDebugNoParams(self, sql, params) ==
  [target |-> IF self.trx # NoTrx THEN self.trx ELSE Pool,
   sql |-> sql, params |-> IF debug THEN <<>> ELSE params, logged |-> debug]

\* _execute(sql, params): the statement and its parameters are written to
\* the console when DB.debug is set (logged); the call goes to the
\* transaction connection when the builder has one, to the shared pool
\* otherwise.
_execute(self, sql, params) ==
  [target |-> IF self.trx # NoTrx THEN self.trx ELSE Pool,
   sql |-> sql, params |-> params, logged |-> debug]

\* What a terminal operation leaves: the builder, the execute calls it
\* issued, and what it returned or threw.
Done(self, cs, out) == [self |-> self, calls |-> cs, out |-> out]

\* get() that resets after a successful call only, without finally.
GetNoFinally(self, res) ==
  IF res.ok
    THEN Done(reset(self), <<_execute(self, buildSelect(self), self.params)>>,
              Return(Rows(res.rows)))
    ELSE Done(self, <<_execute(self, buildSelect(self), self.params)>>,
              Throw(Err(<<"GET failed: ">> \o res.err.message)))

\* get(): try { build, execute } catch { wrap } finally { reset }.
get(self, res) ==
  Done(reset(self),
       <<_execute(self, buildSelect(self), self.params)>>,
       IF res.ok THEN Return(Rows(res.rows))
                 ELSE Throw(Err(<<"GET failed: ">> \o res.err.message)))

\* first() that keeps a limit clause set earlier.
FirstKeepsLimit(self, res) ==
  LET g == get(IF self.limitVal = <<>> THEN limit(self, 1, NoOffset) ELSE self, res)
  IN  IF g.out.kind = "throw" THEN g
      ELSE Done(g.self, g.calls,
                Return(IF Len(g.out.val.rows) > 0
                         THEN [t |-> "row", row |-> g.out.val.rows[1]]
                         ELSE Null))

\* first(): limit(1), get(), then rows[0] ?? null.
first(self, res) ==
  LET g == get(limit(self, 1, NoOffset), res)
  IN  IF g.out.kind = "throw" THEN g
      ELSE Done(g.self, g.calls,
                Return(IF Len(g.out.val.rows) > 0
                         THEN [t |-> "row", row |-> g.out.val.rows[1]]
                         ELSE Null))

\* count(column): try { execute } catch { wrap } finally { reset }.
count(self, column, res) ==
  Done(reset(self),
       <<_execute(self, countSql(self, column), self.params)>>,
       IF res.ok
         THEN Return(Num(IF Len(res.total) > 0 /\ res.total[1] # 0
                           THEN res.total[1] ELSE 0))
         ELSE Throw(Err(<<"COUNT failed: ">> \o res.err.message)))

\* exists(): count() > 0.
exists(self, res) ==
  LET c == count(self, <<"*">>, res)
  IN  IF c.out.kind = "throw" THEN c
      ELSE Done(c.self, c.calls, Return([t |-> "bool", b |-> c.out.val.n > 0]))

\* ------------------------------------------------------- write operations

\* The first entry of a record whose value is undefined (0: none).
FirstUndefined(data) ==
  IF \E i \in 1..Len(data) : data[i][2] = Undefined
    THEN CHOOSE i \in 1..Len(data) :
           /\ data[i][2] = Undefined
           /\ \A j \in 1..(i - 1) : data[j][2] # Undefined
    ELSE 0

\* insert() without the check for undefined values.
InsertNoCheck(self, data, res) ==
  Done(self, <<_execute(self, insertSql(self, Keys(data), 1), Vals(data))>>,
       IF res.ok THEN Return(Num(res.insertId))
                 ELSE Throw(Err(<<"INSERT[", self.table, "] failed: ">> \o res.err.message)))

\* insert(data): try { reject undefined values, execute } catch { wrap }.
insert(self, data, res) ==
  LET u == FirstUndefined(data)
      marker == <<"INSERT[", self.table, "] failed: ">>
      call == _execute(self, insertSql(self, Keys(data), 1), Vals(data))
  IN  IF u # 0
        THEN Done(self, <<>>,
                  Throw(Err(marker \o <<"Undefined value for column: ",
                                        data[u][1], "-", Undefined>>)))
        ELSE Done(self, <<call>>,
                  IF res.ok THEN Return(Num(res.insertId))
                            ELSE Throw(Err(marker \o res.err.message)))

\* The loop of insertBulk without its "key in rows[i]" check.
BulkFaultNoMissing(rows, keys, pos) ==
  LET i == ((pos - 1) \div Len(keys)) + 1
      j == ((pos - 1) % Len(keys)) + 1
  IN  IF Lookup(rows[i], keys[j]) = Undefined
        THEN <<"Undefined value for column \"", keys[j], "\" in row ", NumStr(i - 1)>>
        ELSE <<>>

\* The checks of insertBulk in loop order: row i, then each key of row 0,
\* missing before undefined.  The positions (i, j) are numbered row-major.
BulkFault(rows, keys, pos) ==
  LET i == ((pos - 1) \div Len(keys)) + 1
      j == ((pos - 1) % Len(keys)) + 1
  IN  IF ~HasKey(rows[i], keys[j])
        THEN <<"Missing column \"", keys[j], "\" in row ", NumStr(i - 1)>>
        ELSE IF Lookup(rows[i], keys[j]) = Undefined
          THEN <<"Undefined value for column \"", keys[j], "\" in row ", NumStr(i - 1)>>
          ELSE <<>>

\* insertBulk(rows): try { validate, execute } catch { wrap }.
insertBulk(self, isArray, rows, res) ==
  LET marker == <<"BULK INSERT failed: ">>
      keys == Keys(rows[1])
      n == Len(rows) * Len(keys)
      bad == {pos \in 1..n : BulkFault(rows, keys, pos) # <<>>}
      firstBad == CHOOSE pos \in bad : \A q \in bad : pos <= q
      values == Flatten([i \in 1..Len(rows) |->
                           [j \in 1..Len(keys) |-> Lookup(rows[i], keys[j])]], <<>>)
      call == _execute(self, insertSql(self, keys, Len(rows)), values)
  IN  IF ~isArray \/ Len(rows) = 0
        THEN Done(self, <<>>,
                  Throw(Err(marker \o <<"insertBulk requires a non-empty array">>)))
        ELSE IF bad # {}
          THEN Done(self, <<>>, Throw(Err(marker \o BulkFault(rows, keys, firstBad))))
          ELSE Done(self, <<call>>,
                    IF res.ok THEN Return(Num(res.affectedRows))
                              ELSE Throw(Err(marker \o res.err.message)))

\* update() that sends the predicate parameters before the SET values.
UpdateWhereParamsFirst(self, data, res) ==
  IF Len(self.wheres) = 0
    THEN Done(self, <<>>, Throw(Err(<<"UPDATE requires WHERE">>)))
    ELSE Done(reset(self),
              <<_execute(self, updateSql(self, data), self.params \o Vals(data))>>,
              IF res.ok THEN Return(Num(res.affectedRows)) ELSE Throw(res.err))

\* update() without the check of this.wheres.length.
UpdateNoGuard(self, data, res) ==
  Done(reset(self),
       <<_execute(self, updateSql(self, data), Vals(data) \o self.params)>>,
       IF res.ok THEN Return(Num(res.affectedRows)) ELSE Throw(res.err))

\* update(data): refuse without predicates; try { execute } finally { reset }.
update(self, data, res) ==
  IF Len(self.wheres) = 0
    THEN Done(self, <<>>, Throw(Err(<<"UPDATE requires WHERE">>)))
    ELSE Done(reset(self),
              <<_execute(self, updateSql(self, data), Vals(data) \o self.params)>>,
              IF res.ok THEN Return(Num(res.affectedRows)) ELSE Throw(res.err))

\* delete(): refuse without predicates; try { execute } finally { reset }.
delete(self, res) ==
  IF Len(self.wheres) = 0
    THEN Done(self, <<>>, Throw(Err(<<"DELETE requires WHERE">>)))
    ELSE Done(reset(self),
              <<_execute(self, deleteSql(self), self.params)>>,
              IF res.ok THEN Return(Num(res.affectedRows)) ELSE Throw(res.err))

\* truncate(): the driver's answer, or its error, as it comes.
truncate(self, res) ==
  Done(self, <<_execute(self, <<"TRUNCATE TABLE", self.table>>, <<>>)>>,
       IF res.ok THEN Return([t |-> "ack"]) ELSE Throw(res.err))

\* Math.ceil(total / perPage) for perPage > 0; the division by zero of
\* JavaScript gives NaN for 0 / 0 and Infinity otherwise.
CeilDiv(total, perPage) ==
  IF perPage > 0 THEN Num((total + perPage - 1) \div perPage)
  ELSE IF perPage < 0 THEN Num(-((total) \div (-perPage)))
  ELSE IF total = 0 THEN [t |-> "NaN"] ELSE [t |-> "Infinity"]

\* paginate() that takes its total from count(), which resets the builder.
PaginateCountResets(self, page, perPage, res1, res2) ==
  LET c == count(self, <<"*">>, res1)
      g == get(limit(c.self, perPage, <<(page - 1) * perPage>>), res2)
  IN  IF c.out.kind = "throw" THEN c
      ELSE IF g.out.kind = "throw" THEN Done(g.self, c.calls \o g.calls, g.out)
      ELSE Done(g.self, c.calls \o g.calls,
                Return([t |-> "page", data |-> g.out.val.rows, total |-> c.out.val.n,
                        perPage |-> perPage, currentPage |-> page,
                        lastPage |-> CeilDiv(c.out.val.n, perPage)]))

\* paginate() with the offset page * perPage.
PaginateOffsetByPage(self, page, perPage, res1, res2) ==
  LET c == _execute(self, countSql(self, <<"*">>), self.params)
      total == IF Len(res1.total) > 0 /\ res1.total[1] # 0 THEN res1.total[1] ELSE 0
      g == get(limit(self, perPage, <<page * perPage>>), res2)
  IN  IF ~res1.ok THEN Done(self, <<c>>, Throw(res1.err))
      ELSE IF g.out.kind = "throw" THEN Done(g.self, <<c>> \o g.calls, g.out)
      ELSE Done(g.self, <<c>> \o g.calls,
                Return([t |-> "page", data |-> g.out.val.rows, total |-> total,
                        perPage |-> perPage, currentPage |-> page,
                        lastPage |-> CeilDiv(total, perPage)]))

\* paginate() that goes on to the data SELECT after a failed COUNT.
PaginateAfterFailedCount(self, page, perPage, res1, res2) ==
  LET c == _execute(self, countSql(self, <<"*">>), self.params)
      total == IF Len(res1.total) > 0 /\ res1.total[1] # 0 THEN res1.total[1] ELSE 0
      g == get(limit(self, perPage, <<(page - 1) * perPage>>), res2)
  IN  IF g.out.kind = "throw" THEN Done(g.self, <<c>> \o g.calls, g.out)
      ELSE Done(g.self, <<c>> \o g.calls,
                Return([t |-> "page", data |-> g.out.val.rows, total |-> total,
                        perPage |-> perPage, currentPage |-> page,
                        lastPage |-> CeilDiv(total, perPage)]))

\* paginate(page, perPage): the COUNT, then limit(perPage, offset) and get().
paginate(self, page, perPage, res1, res2) ==
  LET offset == (page - 1) * perPage
      c == _execute(self, countSql(self, <<"*">>), self.params)
      total == IF Len(res1.total) > 0 /\ res1.total[1] # 0 THEN res1.total[1] ELSE 0
      g == get(limit(self, perPage, <<offset>>), res2)
  IN  IF ~res1.ok THEN Done(self, <<c>>, Throw(res1.err))
      ELSE IF g.out.kind = "throw" THEN Done(g.self, <<c>> \o g.calls, g.out)
      ELSE Done(g.self, <<c>> \o g.calls,
                Return([t |-> "page", data |-> g.out.val.rows, total |-> total,
                        perPage |-> perPage, currentPage |-> page,
                        lastPage |-> CeilDiv(total, perPage)]))

\* DB.sql(query, params): on the shared pool.
sql(query, params, res) ==
  Done(<<>>, <<[target |-> Pool, sql |-> query, params |-> params, logged |-> FALSE]>>,
       IF res.ok THEN Return(Rows(res.rows)) ELSE Throw(res.err))

\* trx.sql(q, p) of DB.transaction: on the transaction connection.
trxSql(conn, query, params, res) ==
  Done(<<>>, <<[target |-> conn, sql |-> query, params |-> params, logged |-> FALSE]>>,
       IF res.ok THEN Return([t |-> "raw", rows |-> res.rows]) ELSE Throw(res.err))

\* ------------------------------------------------------------- inputs (2)

\* Records as <<key, value>> entries in insertion order.
RecName == <<<<"name", "v1">>>>
RecNameEmail == <<<<"name", "v1">>, <<"email", "v2">>>>
RecUndefined == <<<<"name", "v1">>, <<"email", Undefined>>>>
Records == {<<>>, RecName, RecNameEmail, RecUndefined}
EqualMaps == {<<>>, <<<<"id", "v1">>>>, <<<<"id", "v1">>, <<"name", "v2">>>>,
              <<<<"name", "v2">>, <<"id", "v1">>>>}
BulkInputs ==
  {[isArray |-> FALSE, rows |-> <<>>], [isArray |-> TRUE, rows |-> <<>>],
   [isArray |-> TRUE, rows |-> <<RecNameEmail, RecNameEmail>>],
   [isArray |-> TRUE, rows |-> <<RecNameEmail, RecNameEmail, RecName>>],
   [isArray |-> TRUE, rows |-> <<RecName, RecNameEmail>>],
   [isArray |-> TRUE, rows |-> <<RecNameEmail, RecUndefined>>],
   [isArray |-> TRUE, rows |-> <<RecNameEmail, RecUndefined, RecName>>],
   [isArray |-> TRUE, rows |-> <<RecNameEmail, <<>>>>]}
RawQueries == {<<"SELECT", "*", "FROM", "users", "WHERE", "status", "=", "?">>}
UowErrors == {Err(<<"Fail">>)}
UowValues == {Undef, Num(7)}

\* The inputs the operations of Spec draw from ...
AllInputs ==
  [records |-> Records, bulk |-> BulkInputs, pages |-> {0, 1, 2}, perPages |-> {0, 2},
   selects |-> SelectAnswers, counts |-> CountAnswers, inserts |-> InsertAnswers,
   writes |-> WriteAnswers, countCols |-> {<<"*">>, <<"id">>}]
\* ... and those of SpecTx, where what matters is which connection a
\* statement goes to and whether it fails.
TxInputs ==
  [records |-> {RecName}, bulk |-> {[isArray |-> TRUE, rows |-> <<RecName, RecName>>]},
   pages |-> {2}, perPages |-> {2},
   selects |-> {Answer(<<"r1", "r2">>, <<>>, 0, 0)} \cup Failures,
   counts |-> {Answer(<<>>, <<3>>, 0, 0)} \cup Failures,
   inserts |-> InsertAnswers,
   writes |-> {Answer(<<>>, <<>>, 0, 1)} \cup Failures, countCols |-> {<<"*">>}]

\* ----------------------------------------------------------------- actions

ClauseOps == {"select", "join", "leftJoin", "rightJoin", "where", "whereEqual",
              "orderBy", "limit"}
TerminalOps == {"get", "first", "insert", "update", "delete", "count",
                "paginate", "truncate"}

\* How much a builder has accumulated: its fragments, and one for each of
\* the column selection, the order clause and the limit clause that is set.
Size(self) ==
  Len(self.joins) + Len(self.wheres)
    + (IF self.selectCols # <<"*">> THEN 1 ELSE 0)
    + (IF self.order # <<>> THEN 1 ELSE 0)
    + (IF self.limitVal # <<>> THEN 1 ELSE 0)

Idle == last.op = "none"

\* The arguments of a call, for the operations that take a record, a list
\* of records or a page: NoArg when there is none.
NoArg == [data |-> <<>>, isArray |-> FALSE, rows |-> <<>>, page |-> 0, perPage |-> 0,
          given |-> <<>>]
\* The arguments of a clause call, in the order they are given.
ClauseArg(given) == [NoArg EXCEPT !.given = given]
DataArg(data) == [NoArg EXCEPT !.data = data]
RowsArg(isArray, rows) == [NoArg EXCEPT !.isArray = isArray, !.rows = rows]
PageArg(page, perPage) == [NoArg EXCEPT !.page = page, !.perPage = perPage]

\* The call that has just settled: the operation, the builder, who made the
\* builder, how many predicates it held, the arguments, and what the driver
\* answered to each execute call the operation issued.
Called(op, b) ==
  [op |-> op, b |-> b, origin |-> origin[b], nWheres |-> Len(db[b].wheres),
   arg |-> NoArg, answers |-> <<>>]

NoCall == [op |-> "none", b |-> "none", origin |-> "none", nWheres |-> 0,
           arg |-> NoArg, answers |-> <<>>]
NoPrev == [op |-> "other", kind |-> "return"]

\* The connection sees the execute calls routed to it, in order.
ConnEvents(cs) ==
  LET onConn == SelectSeq(cs, LAMBDA c : c.target = Conn)
  IN  [i \in 1..Len(onConn) |-> [e |-> "exec", during |-> txpc]]

NExec(log) == Len(SelectSeq(log, LAMBDA ev : ev.e = "exec"))

\* A clause call on b: the builder changes, nothing is executed, the call
\* returns the instance it was called on.
ClauseStep(b, cap, op, new, args, given) ==
  /\ Idle
  /\ Size(new) <= cap
  /\ db' = [db EXCEPT ![b] = new]
  /\ whereArgs' = [whereArgs EXCEPT ![b] = @ \o args]
  /\ last' = [Called(op, b) EXCEPT !.arg = ClauseArg(given)]
  /\ prev' = NoPrev
  /\ calls' = <<>>
  /\ outcome' = Return([t |-> "this", b |-> b])
  /\ UNCHANGED <<origin, txVars, connLog, debug>>

\* A terminal operation on b, called with arg, that ran to its end with
\* result r; answers are the driver's, in order, as far as calls were issued.
TerminalStep(b, op, arg, answers, r) ==
  /\ Idle
  /\ NExec(connLog) + Len(ConnEvents(r.calls)) <= MaxStmts
  /\ db' = [db EXCEPT ![b] = r.self]
  /\ whereArgs' = [whereArgs EXCEPT ![b] = IF Len(r.self.wheres) = 0 THEN <<>> ELSE @]
  /\ last' = [Called(op, b) EXCEPT !.arg = arg, !.answers = SubSeq(answers, 1, Len(r.calls))]
  /\ calls' = r.calls
  /\ outcome' = r.out
  /\ connLog' = connLog \o ConnEvents(r.calls)
  /\ UNCHANGED <<origin, prev, txVars, debug>>

\* The caller takes what the operation settled to and goes on.
Resume ==
  /\ ~Idle
  /\ last' = NoCall
  /\ prev' = IF last.op = "get" THEN [op |-> "get", kind |-> outcome.kind] ELSE NoPrev
  /\ calls' = <<>>
  /\ outcome' = Return(Undef)
  /\ UNCHANGED <<db, origin, whereArgs, txVars, connLog, debug>>

\* DB.table(name): a new instance takes the place of b.
Table(b) ==
  /\ Idle
  /\ \E name \in Tables : db' = [db EXCEPT ![b] = table(name)]
  /\ origin' = [origin EXCEPT ![b] = "DB.table"]
  /\ whereArgs' = [whereArgs EXCEPT ![b] = <<>>]
  /\ last' = [Called("table", b) EXCEPT !.origin = "DB.table", !.nWheres = 0]
  /\ prev' = NoPrev
  /\ calls' = <<>>
  /\ outcome' = Return([t |-> "this", b |-> b])
  /\ UNCHANGED <<txVars, connLog, debug>>

Select(b, cap) ==
  \/ \E cols \in ColumnLists :
       ClauseStep(b, cap, "select", select(db[b], cols, TRUE), <<>>, <<cols, TRUE>>)
  \/ \E col \in Columns \cup {<<"*">>} :
       ClauseStep(b, cap, "select", select(db[b], col, FALSE), <<>>, <<col, FALSE>>)

Join(b, cap) ==
  \E t \in JoinTables :
    ClauseStep(b, cap, "join",
               join(db[b], t, <<"users.id">>, <<"=">>, t \o <<".user_id">>, "INNER"),
               <<>>, <<t, <<"users.id">>, <<"=">>, t \o <<".user_id">>, "INNER">>)

LeftJoin(b, cap) ==
  \E t \in JoinTables :
    ClauseStep(b, cap, "leftJoin",
               leftJoin(db[b], t, <<"users.id">>, <<"=">>, t \o <<".user_id">>),
               <<>>, <<t, <<"users.id">>, <<"=">>, t \o <<".user_id">>, "LEFT">>)

RightJoin(b, cap) ==
  \E t \in JoinTables :
    ClauseStep(b, cap, "rightJoin",
               rightJoin(db[b], t, <<"users.id">>, <<"=">>, t \o <<".user_id">>),
               <<>>, <<t, <<"users.id">>, <<"=">>, t \o <<".user_id">>, "RIGHT">>)

Where(b, cap) ==
  \E c \in Columns, o \in Operators, v \in Values :
    ClauseStep(b, cap, "where", where(db[b], c, o, v),
               <<[column |-> c, operator |-> o, value |-> v]>>, <<c, o, v>>)

WhereEqual(b, cap) ==
  \E data \in EqualMaps :
    ClauseStep(b, cap, "whereEqual", whereEqual(db[b], data),
               [i \in 1..Len(data) |->
                  [column |-> <<data[i][1]>>, operator |-> <<"=">>,
                   value |-> data[i][2]]],
               <<data>>)

OrderBy(b, cap) ==
  \E c \in Columns, d \in OrderDirs :
    ClauseStep(b, cap, "orderBy", orderBy(db[b], c, d), <<>>, <<c, d>>)

Limit(b, cap) ==
  \E n \in Counts, off \in Offsets \cup {NoOffset} :
    ClauseStep(b, cap, "limit", limit(db[b], n, off), <<>>, <<n, off>>)

Get(b, in) == \E res \in in.selects : TerminalStep(b, "get", NoArg, <<res>>, get(db[b], res))
First(b, in) ==
  \E res \in in.selects : TerminalStep(b, "first", NoArg, <<res>>, first(db[b], res))
Count(b, in) ==
  \E res \in in.counts, col \in in.countCols :
    TerminalStep(b, "count", NoArg, <<res>>, count(db[b], col, res))
Exists(b, in) ==
  \E res \in in.counts : TerminalStep(b, "exists", NoArg, <<res>>, exists(db[b], res))
Insert(b, in) ==
  \E data \in in.records, res \in in.inserts :
    TerminalStep(b, "insert", DataArg(data), <<res>>, insert(db[b], data, res))
InsertBulk(b, in) ==
  \E rs \in in.bulk, res \in in.writes :
    TerminalStep(b, "insertBulk", RowsArg(rs.isArray, rs.rows), <<res>>,
                 insertBulk(db[b], rs.isArray, rs.rows, res))
Update(b, in) ==
  \E data \in in.records, res \in in.writes :
    TerminalStep(b, "update", DataArg(data), <<res>>, update(db[b], data, res))
Delete(b, in) ==
  \E res \in in.writes : TerminalStep(b, "delete", NoArg, <<res>>, delete(db[b], res))
Truncate(b, in) ==
  \E res \in in.writes :
    TerminalStep(b, "truncate", NoArg, <<res>>, truncate(db[b], res))
Paginate(b, in) ==
  \E page \in in.pages, perPage \in in.perPages, res1 \in in.counts, res2 \in in.selects :
    TerminalStep(b, "paginate", PageArg(page, perPage), <<res1, res2>>,
                 paginate(db[b], page, perPage, res1, res2))

\* DB.sql(query, params)
Sql(in) ==
  \E q \in RawQueries, v \in Values, res \in in.selects :
    LET r == sql(q, <<v>>, res)
    IN  /\ Idle
        /\ last' = [NoCall EXCEPT !.op = "DB.sql", !.origin = "DB.sql", !.answers = <<res>>]
        /\ calls' = r.calls
        /\ outcome' = r.out
        /\ UNCHANGED <<db, origin, whereArgs, prev, txVars, connLog, debug>>

\* DB.debug = true / false, between two operations.
SetDebug ==
  /\ Idle
  /\ debug' = ~debug
  /\ UNCHANGED <<db, origin, whereArgs, last, prev, calls, outcome, txVars, connLog>>

ClauseNext(b, cap) ==
  \/ Select(b, cap) \/ Join(b, cap) \/ LeftJoin(b, cap) \/ RightJoin(b, cap)
  \/ Where(b, cap) \/ WhereEqual(b, cap) \/ OrderBy(b, cap) \/ Limit(b, cap)

TerminalNext(b, in) ==
  \/ Get(b, in) \/ First(b, in) \/ Count(b, in) \/ Exists(b, in)
  \/ Insert(b, in) \/ InsertBulk(b, in) \/ Update(b, in) \/ Delete(b, in)
  \/ Truncate(b, in) \/ Paginate(b, in)

\* The instances bs, each fresh from DB.table("users"); nothing called yet.
InitWith(bs) ==
  /\ db = [b \in bs |-> table("users")]
  /\ origin = [b \in bs |-> "DB.table"]
  /\ whereArgs = [b \in bs |-> <<>>]
  /\ last = NoCall
  /\ prev = NoPrev
  /\ calls = <<>>
  /\ outcome = Return(Undef)
  /\ txpc = "idle"
  /\ connLog = <<>>
  /\ cbResult = Return(Undef)
  /\ txExit = "none"
  /\ txOutcome = Return(Undef)
  /\ debug = FALSE

Init == InitWith(Builders)

\* A builder on the shared pool, and DB.sql.
Next ==
  \/ \E b \in Builders :
       Table(b) \/ ClauseNext(b, MaxClauses) \/ TerminalNext(b, AllInputs)
  \/ Sql(AllInputs)
  \/ Resume

Spec == Init /\ [][Next]_vars

\* A builder on the shared pool and DB.sql, with DB.debug set and cleared
\* between the operations.
NextDebug ==
  \/ \E b \in Builders :
       Table(b) \/ ClauseNext(b, MaxDebugClauses) \/ TerminalNext(b, TxInputs)
  \/ Sql(TxInputs)
  \/ SetDebug
  \/ Resume

SpecDebug == Init /\ [][NextDebug]_vars

\* Two builders from DB.table in one program: clause calls and get() on
\* either, in any order.
TwoBuilders == {"b1", "b2"}
Other(b) == CHOOSE o \in TwoBuilders : o # b

NextTwo ==
  \/ \E b \in TwoBuilders :
       \/ Table(b)
       \/ ClauseNext(b, MaxTwoClauses - Size(db[Other(b)]))
       \/ Get(b, TxInputs)
  \/ Resume

SpecTwo == InitWith(TwoBuilders) /\ [][NextTwo]_vars

\* ------------------------------------------------------------ transaction
\* DB.transaction(callback):
\*   const conn = await pool.getConnection();
\*   try { await conn.beginTransaction(); const trx = {table, sql};
\*         const result = await callback(trx); await conn.commit();
\*         return result; }
\*   finally { conn.release(); }

Ev(e, during) == [e |-> e, during |-> during]
Exit(log, out) == [log |-> log, out |-> out]

\* finally { conn.release() }, and then the return or the throw it held up.
transactionFinally(log, out) == Exit(Append(log, Ev("release", "finally")), out)

\* beginTransaction() failed: the try block is left with its error.
transactionBeginFailed(log, err) ==
  transactionFinally(Append(log, Ev("begin", "begin")), Throw(err))

\* DB.transaction without finally: a throw skips the release.
CallbackThrewNoRelease(log, e) == Exit(log, Throw(e))
\* DB.transaction with the commit moved into finally.
CallbackThrewCommit(log, e) ==
  transactionFinally(Append(log, Ev("commit", "finally")), Throw(e))
\* DB.transaction with a catch that wraps the error, as get() does.
CallbackThrewWrapped(log, e) ==
  transactionFinally(log, Throw(Err(<<"TRANSACTION failed: ">> \o e.message)))

\* callback(trx) threw e: the try block is left with e.
transactionCallbackThrew(log, e) == transactionFinally(log, Throw(e))

\* callback(trx) returned: conn.commit() is issued.
transactionCallbackReturned(log) == Append(log, Ev("commit", "commit"))

\* DB.transaction without "return result".
CommitSettledNoResult(log, result, res) ==
  transactionFinally(log, IF res.ok THEN Return(Undef) ELSE Throw(res.err))

\* conn.commit() settled: return result, or leave the try block with the
\* error of the commit.
transactionCommitSettled(log, result, res) ==
  transactionFinally(log, IF res.ok THEN Return(result) ELSE Throw(res.err))

\* The trx object exists once beginTransaction() has succeeded; the unit of
\* work may keep it, and the builders it made, after DB.transaction is over.
TrxExists ==
  \/ txpc \in {"callback", "commit"}
  \/ txpc = "done" /\ txExit \in {"callbackThrew", "committed", "commitFailed"}

\* const conn = await pool.getConnection()
TxStart ==
  /\ Idle /\ txpc = "idle"
  /\ \/ /\ txpc' = "begin"
        /\ connLog' = <<Ev("checkout", "idle")>>
        /\ UNCHANGED <<txExit, txOutcome>>
     \/ \E m \in DriverErrors :
          /\ txpc' = "done"
          /\ txExit' = "poolFailed"
          /\ txOutcome' = Throw(Err(<<m>>))
          /\ UNCHANGED connLog
  /\ UNCHANGED <<db, origin, whereArgs, last, prev, calls, outcome, cbResult, debug>>

\* await conn.beginTransaction()
TxBegin ==
  /\ Idle /\ txpc = "begin"
  /\ \/ /\ txpc' = "callback"
        /\ connLog' = Append(connLog, Ev("begin", "begin"))
        /\ UNCHANGED <<txExit, txOutcome>>
     \/ \E m \in DriverErrors :
          LET x == transactionBeginFailed(connLog, Err(<<m>>))
          IN  /\ txpc' = "done"
              /\ txExit' = "beginFailed"
              /\ connLog' = x.log
              /\ txOutcome' = x.out
  /\ UNCHANGED <<db, origin, whereArgs, last, prev, calls, outcome, cbResult, debug>>

\* trx.table(name): a new instance bound to the connection takes the place of b.
TrxTable(b) ==
  /\ Idle /\ TrxExists
  /\ \E name \in Tables : db' = [db EXCEPT ![b] = trxTable(name, Conn)]
  /\ origin' = [origin EXCEPT ![b] = "trx.table"]
  /\ whereArgs' = [whereArgs EXCEPT ![b] = <<>>]
  /\ last' = [Called("trx.table", b) EXCEPT !.origin = "trx.table", !.nWheres = 0]
  /\ prev' = NoPrev
  /\ calls' = <<>>
  /\ outcome' = Return([t |-> "this", b |-> b])
  /\ UNCHANGED <<txVars, connLog, debug>>

\* trx.sql(q, p)
TrxSql(in) ==
  \E q \in RawQueries, v \in Values, res \in in.selects :
    LET r == trxSql(Conn, q, <<v>>, res)
    IN  /\ Idle /\ TrxExists
        /\ NExec(connLog) + Len(ConnEvents(r.calls)) <= MaxStmts
        /\ last' = [NoCall EXCEPT !.op = "trx.sql", !.origin = "trx.sql", !.answers = <<res>>]
        /\ calls' = r.calls
        /\ outcome' = r.out
        /\ connLog' = connLog \o ConnEvents(r.calls)
        /\ UNCHANGED <<db, origin, whereArgs, prev, txVars, debug>>

\* The unit of work returns v.
CallbackReturn ==
  /\ Idle /\ txpc = "callback"
  /\ \E v \in UowValues : cbResult' = Return(v)
  /\ connLog' = transactionCallbackReturned(connLog)
  /\ txpc' = "commit"
  /\ UNCHANGED <<db, origin, whereArgs, last, prev, calls, outcome, txExit, txOutcome, debug>>

\* The unit of work throws: an error of its own, or the error of the
\* operation it has just awaited.
CallbackThrow ==
  /\ txpc = "callback"
  /\ \E e \in UowErrors \cup (IF outcome.kind = "throw" THEN {outcome.val} ELSE {}) :
       LET x == transactionCallbackThrew(connLog, e)
       IN  /\ Idle <=> e \in UowErrors
           /\ cbResult' = Throw(e)
           /\ connLog' = x.log
           /\ txOutcome' = x.out
  /\ txpc' = "done"
  /\ txExit' = "callbackThrew"
  /\ last' = NoCall
  /\ prev' = NoPrev
  /\ calls' = <<>>
  /\ outcome' = Return(Undef)
  /\ UNCHANGED <<db, origin, whereArgs, debug>>

\* await conn.commit() settles; then return result, through finally.
TxCommit ==
  /\ Idle /\ txpc = "commit"
  /\ \E res \in {Answer(<<>>, <<>>, 0, 0)} \cup Failures :
       LET x == transactionCommitSettled(connLog, cbResult.val, res)
       IN  /\ connLog' = x.log
           /\ txOutcome' = x.out
           /\ txExit' = IF res.ok THEN "committed" ELSE "commitFailed"
  /\ txpc' = "done"
  /\ UNCHANGED <<db, origin, whereArgs, last, prev, calls, outcome, cbResult, debug>>

\* DB.transaction with its unit of work, beside builders of DB.table and
\* DB.sql.
NextTx ==
  \/ \E b \in Builders :
       \/ Table(b) \/ TrxTable(b) \/ ClauseNext(b, MaxTxClauses)
       \/ TerminalNext(b, TxInputs)
  \/ Sql(TxInputs) \/ TrxSql(TxInputs)
  \/ Resume
  \/ TxStart \/ TxBegin \/ CallbackReturn \/ CallbackThrow \/ TxCommit

SpecTx == Init /\ [][NextTx]_vars

\* ================================================================= claims

HasEvent(log, e) == \E i \in DOMAIN log : log[i].e = e
NEvents(log, e) == Len(SelectSeq(log, LAMBDA ev : ev.e = e))
\* The unit of work has returned (it did not throw).
CallbackCompleted ==
  /\ txpc \in {"commit", "done"}
  /\ txExit \in {"none", "committed", "commitFailed"}

\* C1: whenever the unit of work raises after begin-transaction succeeded, a
\* rollback is issued on the checked-out connection before the connection
\* is released to the pool.
C1_RollbackBeforeRelease ==
  txExit = "callbackThrew" =>
    \E i, j \in DOMAIN connLog :
      i < j /\ connLog[i].e = "rollback" /\ connLog[j].e = "release"

\* C2: the connection obtained from the pool is released exactly once on
\* every exit path of DB.transaction (begin failure, unit of work raising,
\* commit failure, normal completion): never twice, never before the exit,
\* and once when DB.transaction is over.
C2_ReleasedExactlyOnce ==
  /\ NEvents(connLog, "release") <= 1
  /\ txpc # "done" => NEvents(connLog, "release") = 0
  /\ (txpc = "done" /\ txExit # "poolFailed") => NEvents(connLog, "release") = 1

C2_Witness ==
  /\ txExit = "commitFailed"
  /\ NEvents(connLog, "exec") >= 1
  /\ NEvents(connLog, "release") = 1

\* C3: commit is never issued in an execution where the unit of work raised
\* or begin-transaction failed; a commit is issued only once the unit of
\* work has completed without error.
C3_NoCommitAfterFailure ==
  /\ txExit \in {"callbackThrew", "beginFailed", "poolFailed"} => ~HasEvent(connLog, "commit")
  /\ HasEvent(connLog, "commit") => CallbackCompleted /\ cbResult.kind = "return"

C3_Witness ==
  /\ txExit = "callbackThrew"
  /\ \E i \in DOMAIN connLog : connLog[i] = Ev("exec", "callback")

\* C4 (as stated): when the unit of work completes without raising, commit
\* is issued exactly once, after begin-transaction and after every statement
\* the unit of work awaited, and DB.transaction returns exactly the value
\* the unit of work returned.
CommitOnceInOrder ==
  /\ NEvents(connLog, "commit") = 1
  /\ \A k \in DOMAIN connLog :
       connLog[k].e = "commit" =>
         /\ \E i \in 1..(k - 1) : connLog[i].e = "begin"
         /\ \A i \in DOMAIN connLog : connLog[i] = Ev("exec", "callback") => i < k

C4_Original ==
  (txpc = "done" /\ CallbackCompleted) =>
    CommitOnceInOrder /\ txOutcome = Return(cbResult.val)

\* C4 (amended): when the unit of work completes without raising, commit is
\* issued exactly once, after begin-transaction and after every statement
\* the unit of work awaited; if that commit succeeds DB.transaction returns
\* exactly the value the unit of work returned, and if it fails
\* DB.transaction throws the error of the commit.
C4_CommitThenResult ==
  CallbackCompleted =>
    /\ CommitOnceInOrder
    /\ txExit = "committed" => txOutcome = Return(cbResult.val)
    /\ txExit = "commitFailed" => txOutcome.kind = "throw" /\ txOutcome.val \in {Err(<<m>>) : m \in DriverErrors}

C4_Witness ==
  /\ txExit = "committed"
  /\ cbResult = Return(Num(7))
  /\ \E i \in DOMAIN connLog : connLog[i] = Ev("exec", "callback")

\* C5: an error raised by the unit of work reaches the caller of
\* DB.transaction as the same error, not wrapped, replaced or swallowed.
C5_ErrorUnchanged ==
  txExit = "callbackThrew" => cbResult.kind = "throw" /\ txOutcome = Throw(cbResult.val)

C5_Witness ==
  /\ txExit = "callbackThrew"
  /\ cbResult.val = Err(<<"GET failed: ", "ER_FAIL">>)

\* C6: every statement of a builder made by trx.table, and every trx.sql
\* statement, goes to the transaction connection and never to the pool;
\* every statement of a builder made by DB.table, and every DB.sql
\* statement, goes to the pool and never to a transaction connection.
C6_Routing ==
  \A i \in DOMAIN calls :
    /\ last.origin \in {"trx.table", "trx.sql"} => calls[i].target = Conn
    /\ last.origin \in {"DB.table", "DB.sql"} => calls[i].target = Pool

C6_Witness ==
  /\ last.origin = "trx.table"
  /\ last.op = "paginate"
  /\ Len(calls) = 2
  /\ txpc = "callback"

\* C7: after any terminal operation (get, first, insert, update, delete,
\* count, paginate, truncate) completes on a builder, the accumulated state
\* of the builder is the empty form.  Stated for the operations that
\* return; C8 and C22 are about those that throw.
C7_TerminalResets ==
  (last.op \in TerminalOps /\ outcome.kind = "return") =>
    Clauses(db[last.b]) = EmptyClauses

\* C8: get, count, update with predicates and delete with predicates leave
\* the builder empty whether the driver call succeeded or failed; a second
\* get() with no clause call in between compiles the unfiltered, unordered,
\* unlimited SELECT with no parameters, however the first get() ended.
C8_ResetOnBothPaths ==
  /\ (\/ last.op \in {"get", "count"}
      \/ last.op \in {"update", "delete"} /\ last.nWheres > 0) =>
       Clauses(db[last.b]) = EmptyClauses
  /\ (last.op = "get" /\ prev.op = "get") =>
       /\ Len(calls) = 1
       /\ calls[1].sql = <<"SELECT", "*", "FROM", db[last.b].table>>
       /\ calls[1].params = <<>>

C8_Witness ==
  /\ last.op = "get"
  /\ prev = [op |-> "get", kind |-> "throw"]
  /\ Len(calls) = 1

\* C9: update and delete on a builder with no predicate fragment fail with
\* an error and issue no execute call, to the pool or to a connection.
C9_NoWhereNoIO ==
  (last.op \in {"update", "delete"} /\ last.nWheres = 0) =>
    /\ outcome.kind = "throw"
    /\ calls = <<>>

C9_Witness ==
  /\ last.op = "delete"
  /\ last.origin = "trx.table"
  /\ last.nWheres = 0
  /\ Len(db[last.b].joins) = 1

\* The predicate fragments and the bound parameters of b are those of the
\* where calls made since the list was emptied, one of each per call, in
\* call order.
Aligned(b) ==
  /\ Len(db[b].wheres) = Len(db[b].params)
  /\ Len(db[b].wheres) = Len(whereArgs[b])
  /\ \A i \in DOMAIN whereArgs[b] :
       /\ db[b].wheres[i] = whereArgs[b][i].column \o whereArgs[b][i].operator \o <<"?">>
       /\ db[b].params[i] = whereArgs[b][i].value

\* No where call since the list was emptied had a "?" in its column or
\* operator text.
PlainTexts(b) ==
  \A i \in DOMAIN whereArgs[b] :
    Placeholders(whereArgs[b][i].column \o whereArgs[b][i].operator) = 0

\* C10 (as stated): in every reachable state of a builder the predicate
\* fragments and the bound parameters are equally many, the i-th parameter
\* is the value passed with the i-th fragment, and so the compiled WHERE
\* clause has exactly as many ? placeholders as there are parameters.
C10_Original ==
  \A b \in Builders :
    Aligned(b) /\ Placeholders(whereSql(db[b])) = Len(db[b].params)

\* C10 (amended): the fragments and the parameters are equally many and the
\* i-th parameter is the value passed with the i-th fragment; the compiled
\* WHERE clause has exactly as many ? placeholders as there are parameters
\* provided no column or operator text passed to where holds a ? itself.
C10_AlignedParams ==
  \A b \in Builders :
    /\ Aligned(b)
    /\ PlainTexts(b) => Placeholders(whereSql(db[b])) = Len(db[b].params)

C10_Witness ==
  /\ db["b1"].params = <<"v2", "v1", "v2">>
  /\ PlainTexts("b1")
  /\ Placeholders(whereSql(db["b1"])) = 3

\* A value of the record is undefined.
HasUndefined(data) == \E i \in DOMAIN data : data[i][2] = Undefined

\* Some row holds undefined under a column of the first row.
RowsHaveUndefined(rows) ==
  \E i \in DOMAIN rows :
    \E j \in DOMAIN rows[1] :
      HasKey(rows[i], rows[1][j][1]) /\ Lookup(rows[i], rows[1][j][1]) = Undefined

\* C11: insert(record) with a value equal to undefined, and insertBulk(rows)
\* with undefined under a column of the first row in any row, fail with an
\* error before any execute call is issued.
C11_UndefinedNoIO ==
  (\/ last.op = "insert" /\ HasUndefined(last.arg.data)
   \/ /\ last.op = "insertBulk"
      /\ last.arg.isArray
      /\ RowsHaveUndefined(last.arg.rows)) =>
    /\ outcome.kind = "throw"
    /\ calls = <<>>

C11_Witness ==
  /\ last.op = "insert"
  /\ last.arg.data = RecUndefined
  /\ Len(db[last.b].wheres) = 1
  /\ outcome = Throw(Err(<<"INSERT[", "users", "] failed: ",
                           "Undefined value for column: ", "email", "-", Undefined>>))

\* The columns of the first row that row i lacks, by their position in the
\* first row; the rows that lack one.
Lacks(rows, i) == {j \in DOMAIN rows[1] : ~HasKey(rows[i], rows[1][j][1])}
LackingRows(rows) == {i \in DOMAIN rows : Lacks(rows, i) # {}}
Least(S) == CHOOSE x \in S : \A y \in S : x <= y

\* A value that insertBulk looks at before column j of row i is undefined.
UndefinedBefore(rows, i, j) ==
  \E r \in 1..i :
    \E c \in DOMAIN rows[1] :
      /\ r < i \/ c < j
      /\ HasKey(rows[r], rows[1][c][1])
      /\ Lookup(rows[r], rows[1][c][1]) = Undefined

MissingColumn(rows, i, j) ==
  Err(<<"BULK INSERT failed: ", "Missing column \"", rows[1][j][1], "\" in row ",
        NumStr(i - 1)>>)

BulkCall == last.op = "insertBulk"
BulkOfRows == BulkCall /\ last.arg.isArray /\ Len(last.arg.rows) > 0
BulkRowLacksColumn == BulkOfRows /\ LackingRows(last.arg.rows) # {}

\* insertBulk on an empty or non-array input fails without an execute call.
BulkNotRowsNoIO ==
  (BulkCall /\ ~BulkOfRows) =>
    /\ outcome = Throw(Err(<<"BULK INSERT failed: ",
                             "insertBulk requires a non-empty array">>))
    /\ calls = <<>>

\* C12 (as stated): insertBulk on rows of which some row i lacks a column of
\* row 0 fails with an error that identifies the smallest such row index
\* and a column that row lacks, and issues no execute call; insertBulk on
\* an empty or non-array input also fails without an execute call.
C12_Original ==
  /\ BulkNotRowsNoIO
  /\ BulkRowLacksColumn =>
       LET i == Least(LackingRows(last.arg.rows))
       IN  /\ calls = <<>>
           /\ \E j \in Lacks(last.arg.rows, i) :
                outcome = Throw(MissingColumn(last.arg.rows, i, j))

\* C12 (amended): such an insertBulk fails and issues no execute call; its
\* error reports the first fault met when the rows are scanned in order and
\* each row under the columns of row 0 in order, so it identifies the
\* smallest row index that lacks a column, and the first column it lacks,
\* when no value scanned before that is undefined; insertBulk on an empty
\* or non-array input also fails without an execute call.
C12_FirstFault ==
  /\ BulkNotRowsNoIO
  /\ BulkRowLacksColumn =>
       LET i == Least(LackingRows(last.arg.rows))
           j == Least(Lacks(last.arg.rows, i))
       IN  /\ calls = <<>>
           /\ outcome.kind = "throw"
           /\ ~UndefinedBefore(last.arg.rows, i, j) =>
                outcome = Throw(MissingColumn(last.arg.rows, i, j))

C12_Witness ==
  /\ BulkRowLacksColumn
  /\ last.arg.rows = <<RecNameEmail, RecNameEmail, RecName>>
  /\ outcome = Throw(MissingColumn(last.arg.rows, 3, 2))
  /\ calls = <<>>

KeySet(rec) == {rec[i][1] : i \in DOMAIN rec}

\* C13: insertBulk accepts a sequence of records only if every record's key
\* set is exactly the key set of the first record: a record with a key the
\* first record does not have is rejected (an error, no execute call) just
\* like a record missing one of the first record's keys.
C13_ExactKeySets ==
  (/\ BulkOfRows
   /\ \E i \in DOMAIN last.arg.rows : KeySet(last.arg.rows[i]) # KeySet(last.arg.rows[1])) =>
    /\ outcome.kind = "throw"
    /\ calls = <<>>

\* The text a statement is given by the join fragments and the predicate
\* fragments of a builder.
Filter(self) == Flatten(self.joins, <<>>) \o whereSql(self)

\* Statement text is head, then the filter of self, then rest.
Compiles(text, head, self, rest) == text = head \o Filter(self) \o rest

\* C14: in paginate(page, perPage) the COUNT statement and the data SELECT
\* that follows are compiled from the same join fragments, the same
\* predicate fragments and the same bound parameters, those the builder
\* held when paginate was called: the count step leaves the accumulated
\* state as it is, and the state is reset only after the data step.
C14_SameFilterState ==
  [][last'.op = "paginate" =>
       LET self == db[last'.b]
           after == db'[last'.b]
       IN  /\ Len(calls') \in {1, 2}
           /\ Compiles(calls'[1].sql,
                       <<"SELECT", "COUNT(", "*", ")", "as", "total", "FROM", self.table>>,
                       self, <<>>)
           /\ calls'[1].params = self.params
           /\ Len(calls') = 1 => Clauses(after) = Clauses(self)
           /\ Len(calls') = 2 =>
                /\ LET n == Len(calls'[2].sql)
                       lim == SubSeq(calls'[2].sql, n - 3, n)
                   IN  /\ n >= 4
                       /\ lim[1] = "LIMIT"
                       /\ Compiles(calls'[2].sql,
                                   <<"SELECT">> \o self.selectCols \o <<"FROM", self.table>>,
                                   self, self.order \o lim)
                /\ calls'[2].params = self.params
                /\ Clauses(after) = EmptyClauses]_vars

C14_Witness ==
  /\ last.op = "paginate"
  /\ Len(calls) = 2
  /\ calls[1].params = <<"v1", "v2">>
  /\ calls[2].params = <<"v1", "v2">>
  /\ \E i \in DOMAIN calls[1].sql : calls[1].sql[i] = "LEFT"
  /\ \E i \in DOMAIN calls[2].sql : calls[2].sql[i] = "LEFT"
  /\ Clauses(db[last.b]) = EmptyClauses

\* The last n tokens of a text.
Suffix(text, n) == SubSeq(text, Len(text) - n + 1, Len(text))

\* The total of the row a COUNT statement returned: 0 when it returned none.
Counted(answer) == IF answer.total = <<>> THEN 0 ELSE answer.total[1]

\* n is the least integer that is at least total / perPage.
IsCeil(n, total, perPage) == n * perPage >= total /\ (n - 1) * perPage < total

\* C15: paginate(page, perPage) with page >= 1 and perPage >= 1 asks for
\* the data page with offset (page - 1) * perPage and row limit perPage,
\* and when both statements succeed returns the rows of the data page with
\* meta.total = the count the COUNT statement returned (0 when it returned
\* no row), meta.perPage = perPage, meta.currentPage = page and
\* meta.lastPage = ceil(total / perPage).
C15_PageArithmetic ==
  (last.op = "paginate" /\ last.arg.page >= 1 /\ last.arg.perPage >= 1) =>
    LET page == last.arg.page
        perPage == last.arg.perPage
    IN  /\ Len(calls) = 2 =>
             Suffix(calls[2].sql, 4) =
               <<"LIMIT", NumStr((page - 1) * perPage), ",", NumStr(perPage)>>
        /\ (\A i \in DOMAIN last.answers : last.answers[i].ok) =>
             /\ Len(calls) = 2
             /\ outcome.kind = "return"
             /\ outcome.val.data = last.answers[2].rows
             /\ outcome.val.total = Counted(last.answers[1])
             /\ outcome.val.perPage = perPage
             /\ outcome.val.currentPage = page
             /\ outcome.val.lastPage.t = "num"
             /\ IsCeil(outcome.val.lastPage.n, outcome.val.total, perPage)

C15_Witness ==
  /\ last.op = "paginate"
  /\ last.arg.page = 2
  /\ last.arg.perPage = 2
  /\ Len(calls) = 2
  /\ Suffix(calls[2].sql, 4) = <<"LIMIT", "2", ",", "2">>
  /\ outcome.kind = "return"
  /\ outcome.val.total = 3
  /\ outcome.val.lastPage = Num(2)
  /\ outcome.val.data = <<"r1", "r2">>

\* C16: paginate(page, perPage) with page <= 0 or perPage <= 0 fails at once
\* as a caller error: no execute call is issued, so no statement with a
\* negative offset or a non-positive limit is compiled.
C16_InvalidPageRejected ==
  (last.op = "paginate" /\ (last.arg.page <= 0 \/ last.arg.perPage <= 0)) =>
    /\ outcome.kind = "throw"
    /\ calls = <<>>

\* The terminal methods of a builder.
Methods == {"get", "first", "count", "exists", "insert", "insertBulk", "update",
            "delete", "truncate", "paginate"}

\* The error e wraps the driver error d: the message of d after a marker.
Wraps(e, d) ==
  /\ Len(e.message) > Len(d.message)
  /\ Suffix(e.message, Len(d.message)) = d.message

\* C17: whenever the driver fails an execute call of a terminal method
\* (get, first, count, exists, insert, insertBulk, update, delete,
\* truncate, either step of paginate), the caller gets an error that
\* carries a marker of the operation before the original driver message;
\* the raw driver error is never propagated.
C17_DriverErrorsWrapped ==
  last.op \in Methods =>
    \A i \in DOMAIN last.answers :
      ~last.answers[i].ok =>
        /\ outcome.kind = "throw"
        /\ outcome.val # last.answers[i].err
        /\ Wraps(outcome.val, last.answers[i].err)

\* C18: no operation retries.  Each of get, first, count, exists, insert,
\* insertBulk, update, delete and truncate issues at most one execute call
\* per invocation and paginate at most two, the COUNT and then the SELECT;
\* once the driver fails a call the operation issues no further call and
\* throws an error that carries the driver's message (a failed COUNT in
\* paginate means the SELECT is never issued).
C18_NoRetry ==
  last.op \in Methods =>
    /\ Len(calls) <= (IF last.op = "paginate" THEN 2 ELSE 1)
    /\ Len(calls) = 2 =>
         /\ SubSeq(calls[1].sql, 1, 2) = <<"SELECT", "COUNT(">>
         /\ calls[2].sql[1] = "SELECT"
         /\ calls[2].sql[2] # "COUNT("
    /\ \A i \in DOMAIN last.answers :
         ~last.answers[i].ok =>
           /\ i = Len(calls)
           /\ outcome.kind = "throw"
           /\ Suffix(outcome.val.message, Len(last.answers[i].err.message))
                = last.answers[i].err.message

C18_Witness ==
  /\ last.op = "paginate"
  /\ Len(calls) = 1
  /\ Len(last.answers) = 1
  /\ ~last.answers[1].ok
  /\ outcome = Throw(last.answers[1].err)

\* The fields a clause method is there to set.
Targets(op) ==
  CASE op = "select" -> {"selectCols"}
    [] op \in {"join", "leftJoin", "rightJoin"} -> {"joins"}
    [] op \in {"where", "whereEqual"} -> {"wheres", "params"}
    [] op = "orderBy" -> {"order"}
    [] op = "limit" -> {"limitVal"}

Fields == {"table", "trx", "selectCols", "joins", "wheres", "params", "order", "limitVal"}

\* C19: every clause-adding method (select, join, leftJoin, rightJoin,
\* where, whereEqual, orderBy, limit) returns the instance it was called
\* on, issues no execute call, and leaves unchanged the table, the
\* transaction handle, every field other than those of the clause it sets,
\* and every other builder instance: two builders from DB.table never
\* share clause state.
C19_ClauseFrame ==
  [][last'.op \in ClauseOps =>
       LET b == last'.b
       IN  /\ outcome' = Return([t |-> "this", b |-> b])
           /\ calls' = <<>>
           /\ connLog' = connLog
           /\ \A f \in Fields \ Targets(last'.op) : db'[b][f] = db[b][f]
           /\ \A o \in DOMAIN db \ {b} : db'[o] = db[o]]_vars

C19_Witness ==
  /\ last.op = "where"
  /\ last.b = "b2"
  /\ Len(db["b2"].wheres) = 1
  /\ db["b2"].limitVal # <<>>
  /\ Len(db["b1"].joins) = 1
  /\ db["b1"].wheres = <<>>
  /\ db["b1"].limitVal = <<>>

\* What an operation does that its caller and the database can observe: the
\* builder it leaves, the statements it sends with their parameters and
\* targets, and what it returns or throws.  What it writes to the console
\* is left out.
Visible(r) ==
  [self |-> r.self,
   calls |-> [i \in DOMAIN r.calls |->
                [target |-> r.calls[i].target, sql |-> r.calls[i].sql,
                 params |-> r.calls[i].params]],
   out |-> r.out]

\* The builders an operation can be called on next: those at hand, and
\* for each the builder trx.table gives, with the same clauses on it.
Selves == {db[b] : b \in DOMAIN db} \cup {[db[b] EXCEPT !.trx = Conn] : b \in DOMAIN db}

\* What every operation that can be called next would do, for every
\* argument and every answer of the driver.
VisibleNext(in) ==
  [get |-> [self \in Selves |-> [res \in in.selects |-> Visible(get(self, res))]],
   first |-> [self \in Selves |-> [res \in in.selects |-> Visible(first(self, res))]],
   count |-> [self \in Selves |-> [res \in in.counts |-> [col \in in.countCols |->
                Visible(count(self, col, res))]]],
   exists |-> [self \in Selves |-> [res \in in.counts |-> Visible(exists(self, res))]],
   insert |-> [self \in Selves |-> [res \in in.inserts |-> [data \in in.records |->
                 Visible(insert(self, data, res))]]],
   insertBulk |-> [self \in Selves |-> [res \in in.writes |-> [rs \in in.bulk |->
                     Visible(insertBulk(self, rs.isArray, rs.rows, res))]]],
   update |-> [self \in Selves |-> [res \in in.writes |-> [data \in in.records |->
                 Visible(update(self, data, res))]]],
   delete |-> [self \in Selves |-> [res \in in.writes |-> Visible(delete(self, res))]],
   truncate |-> [self \in Selves |-> [res \in in.writes |-> Visible(truncate(self, res))]],
   paginate |-> [self \in Selves |-> [res1 \in in.counts |-> [res2 \in in.selects |->
                   [page \in in.pages |-> [perPage \in in.perPages |->
                      Visible(paginate(self, page, perPage, res1, res2))]]]]],
   sql |-> [res \in in.selects |-> [q \in RawQueries |-> Visible(sql(q, <<"v1">>, res))]],
   trxSql |-> [res \in in.selects |-> [q \in RawQueries |->
                 Visible(trxSql(Conn, q, <<"v1">>, res))]],
   clauses |-> [self \in Selves |->
                  <<where(self, <<"id">>, <<"=">>, "v1"), limit(self, 2, NoOffset),
                    orderBy(self, <<"id">>, "ASC"), select(self, <<"id">>, FALSE)>>],
   transaction |-> [e \in UowErrors |-> [v \in UowValues |->
                      <<transactionBeginFailed(<<>>, e), transactionCallbackThrew(<<>>, e),
                        transactionCommitSettled(<<>>, v, Answer(<<>>, <<>>, 0, 0))>>]]]

\* C20: the process-wide debug flag affects only diagnostic output: two
\* runs of the same builder and transaction operations that differ only in
\* the values of DB.debug, toggled between operations or not, send the
\* same statements and parameters to the same targets, return the same
\* results and leave the same builder states.  Stated as the step condition
\* from which this follows by induction on the sequence of operations:
\* setting the flag changes nothing but the flag, and in every reachable
\* state each operation, for each argument and each answer of the driver,
\* sends, returns and leaves the same with the flag set as with it clear.
C20_DebugOnlyDiagnostics ==
  [][debug' # debug =>
       /\ <<db, connLog, txpc, cbResult, txExit, txOutcome>>'
            = <<db, connLog, txpc, cbResult, txExit, txOutcome>>
       /\ VisibleNext(TxInputs)' = VisibleNext(TxInputs)]_vars

C20_Witness ==
  /\ debug
  /\ last.op = "paginate"
  /\ Len(calls) = 2
  /\ calls[1].logged /\ calls[2].logged
  /\ calls[1].params = <<"v2", "v1">>
  /\ outcome.kind = "return"

\* C21: first() sets the limit clause to a plain limit of 1, in place of
\* any limit or limit with offset set earlier on the instance, and then
\* does what get() does: one SELECT compiled from the columns, joins,
\* predicates, parameters and order the builder held; it returns the first
\* row returned, or null when no row is returned, and leaves the instance
\* empty.
C21_FirstIsLimitOneGet ==
  [][last'.op = "first" =>
       LET self == db[last'.b]
       IN  /\ Len(calls') = 1
           /\ Compiles(calls'[1].sql,
                       <<"SELECT">> \o self.selectCols \o <<"FROM", self.table>>,
                       self, self.order \o <<"LIMIT", "1">>)
           /\ calls'[1].params = self.params
           /\ last'.answers[1].ok =>
                outcome' = Return(IF last'.answers[1].rows = <<>>
                                    THEN Null
                                    ELSE [t |-> "row", row |-> last'.answers[1].rows[1]])
           /\ ~last'.answers[1].ok => outcome'.kind = "throw"
           /\ Clauses(db'[last'.b]) = EmptyClauses]_vars

C21_Witness ==
  /\ last.op = "first"
  /\ Len(calls) = 1
  /\ Suffix(calls[1].sql, 4) = <<"id", "DESC", "LIMIT", "1">>
  /\ calls[1].params = <<"v1">>
  /\ outcome = Return([t |-> "row", row |-> "r1"])
  /\ Clauses(db[last.b]) = EmptyClauses

\* C22: on every failing exit of a terminal operation, the early rejections
\* (update / delete without WHERE, insert / insertBulk validation) and a
\* failed COUNT step of paginate included, the accumulated state of the
\* builder is reset to the empty form, so nothing set before the failed
\* call is in the statement the next terminal operation compiles.
C22_FailureResets ==
  (last.op \in Methods /\ outcome.kind = "throw") =>
    Clauses(db[last.b]) = EmptyClauses

\* How often a token occurs in a text, and where the first one is.
Occurrences(text, tok) == Cardinality({p \in DOMAIN text : text[p] = tok})
Position(text, tok) == Least({p \in DOMAIN text : text[p] = tok})

\* The text from the first occurrence of a token to the end.
From(text, tok) == SubSeq(text, Position(text, tok), Len(text))

\* The text is that of part at position p.
HasAt(text, p, part) ==
  /\ p + Len(part) - 1 <= Len(text)
  /\ SubSeq(text, p, p + Len(part) - 1) = part

\* C23: the order clause, the limit clause and the column selection are
\* last-write-wins: after any sequence of orderBy, limit and select calls
\* since the last reset the compiled SELECT holds exactly one ORDER BY,
\* that of the last orderBy call, exactly one LIMIT, that of the last limit
\* call, and the columns of the last select call, while each join call and
\* each where call adds one fragment after those already there.  Stated
\* on every clause call: what it compiles to afterwards.
C23_LastWriteWins ==
  [][last'.op \in ClauseOps =>
       LET self == db[last'.b]
           new == db'[last'.b]
           text == buildSelect(new)
           given == last'.arg.given
       IN  /\ Occurrences(text, "ORDER BY") <= 1
           /\ Occurrences(text, "LIMIT") <= 1
           /\ Occurrences(text, "FROM") = 1
           /\ Occurrences(text, "JOIN") = Len(new.joins)
           /\ Occurrences(text, "WHERE") = (IF Len(new.wheres) > 0 THEN 1 ELSE 0)
           /\ last'.op = "orderBy" =>
                /\ Occurrences(text, "ORDER BY") = 1
                /\ HasAt(text, Position(text, "ORDER BY"),
                         <<"ORDER BY">> \o given[1] \o <<given[2]>>)
           /\ last'.op = "limit" =>
                /\ Occurrences(text, "LIMIT") = 1
                /\ From(text, "LIMIT") =
                     (IF given[2] = NoOffset
                        THEN <<"LIMIT", NumStr(given[1])>>
                        ELSE <<"LIMIT", NumStr(given[2][1]), ",", NumStr(given[1])>>)
           /\ last'.op = "select" =>
                HasAt(text, 1,
                      <<"SELECT">>
                        \o (IF given[2] THEN Flatten(given[1], <<",">>) ELSE given[1])
                        \o <<"FROM">>)
           /\ last'.op \in {"join", "leftJoin", "rightJoin"} =>
                /\ Len(new.joins) = Len(self.joins) + 1
                /\ SubSeq(new.joins, 1, Len(self.joins)) = self.joins
                /\ new.joins[Len(new.joins)] =
                     <<given[5], "JOIN">> \o given[1] \o <<"ON">> \o given[2]
                       \o given[3] \o given[4]
           /\ last'.op = "where" =>
                /\ new.wheres = Append(self.wheres, given[1] \o given[2] \o <<"?">>)
                /\ new.params = Append(self.params, given[3])
           /\ last'.op = "whereEqual" =>
                /\ Len(new.wheres) = Len(self.wheres) + Len(given[1])
                /\ SubSeq(new.wheres, 1, Len(self.wheres)) = self.wheres
                /\ \A i \in DOMAIN given[1] :
                     new.wheres[Len(self.wheres) + i] = <<given[1][i][1], "=", "?">>]_vars

C23_Witness ==
  /\ last.op = "orderBy"
  /\ last.arg.given = <<<<"id">>, "DESC">>
  /\ db[last.b].limitVal = <<"LIMIT", "0", ",", "2">>
  /\ Len(db[last.b].wheres) = 1
  /\ Suffix(buildSelect(db[last.b]), 7) =
       <<"ORDER BY", "id", "DESC", "LIMIT", "0", ",", "2">>

\* An update(record) on b, which holds k >= 1 predicates, sends one
\* statement whose parameters are the values of the record in key order
\* and then the values of the where calls on b in call order.
UpdateParamsInOrder(b) ==
  /\ Len(calls') = 1
  /\ calls'[1].params =
       [i \in DOMAIN last'.arg.data |-> last'.arg.data[i][2]]
         \o [i \in DOMAIN whereArgs[b] |-> whereArgs[b][i].value]

\* C24 (as stated): for update(record) on a builder with k >= 1 predicate
\* fragments the parameters sent to the driver are the record's values in
\* key insertion order followed by the k predicate parameters in the order
\* of their where calls, and they are as many as there are ? placeholders
\* in the compiled UPDATE statement.
C24_Original ==
  [][(last'.op = "update" /\ last'.nWheres >= 1) =>
       /\ UpdateParamsInOrder(last'.b)
       /\ Len(calls'[1].params) = Placeholders(calls'[1].sql)]_vars

\* C24 (amended): the parameters are the record's values in key insertion
\* order followed by the k predicate parameters in the order of their where
\* calls; they are as many as the ? placeholders of the compiled UPDATE
\* statement, one per SET column plus one per predicate, provided no
\* column or operator text passed to where holds a ? itself.
C24_UpdateParams ==
  [][(last'.op = "update" /\ last'.nWheres >= 1) =>
       /\ UpdateParamsInOrder(last'.b)
       /\ PlainTexts(last'.b) =>
            /\ Len(calls'[1].params) = Placeholders(calls'[1].sql)
            /\ Placeholders(calls'[1].sql) = Len(last'.arg.data) + last'.nWheres]_vars

C24_Witness ==
  /\ last.op = "update"
  /\ last.nWheres = 2
  /\ last.arg.data = RecNameEmail
  /\ Len(calls) = 1
  /\ calls[1].params = <<"v1", "v2", "v2", "v1">>
  /\ Placeholders(calls[1].sql) = 4

\* begin-transaction succeeded in this execution of DB.transaction.
BeginSucceeded == txExit \in {"callbackThrew", "committed", "commitFailed"}

\* C25: a transaction's connection is never released to the pool while its
\* transaction is still active: in every execution where begin-transaction
\* succeeded, when the connection is released the transaction has been
\* committed or rolled back, also where the unit of work raised and where
\* commit itself failed.
C25_EndedBeforeRelease ==
  (BeginSucceeded /\ HasEvent(connLog, "release")) =>
    \/ txExit = "committed"
    \/ \E i, j \in DOMAIN connLog :
         i < j /\ connLog[i].e = "rollback" /\ connLog[j].e = "release"

\* C26: no statement is executed on a transaction's connection after the
\* transaction has committed, rolled back or released the connection:
\* trx.table, trx.sql and the builders made by trx.table send nothing to
\* the connection once DB.transaction is past its commit or has finished.
C26_NoStatementAfterEnd ==
  \A i, j \in DOMAIN connLog :
    (i < j /\ connLog[i].e \in {"commit", "rollback", "release"}) =>
      connLog[j].e # "exec"

====
